---- MODULE Spec2Model ----
(***************************************************************************)
(* Model of src/bot.py: the per-caller session (context.user_data), the    *)
(* registry of active callers (context.bot_data['active_users']), the menu *)
(* navigation of handle_message / show_current_level, the /start, /search  *)
(* and /exit handlers, the periodic inactivity sweep check_inactivity, and *)
(* the tables users and access_requests of bot.db with the handlers of the *)
(* access requests.                                                        *)
(*                                                                         *)
(* Text is a sequence of one-character strings, so that Python's `in` on a *)
(* str (a substring test) is computed and not assumed.  A dict is an       *)
(* ordered sequence of <<key, value>> pairs.                               *)
(*                                                                         *)
(* Replies sent with update.message.reply_text are taken to be delivered;  *)
(* the only transport failure modelled is that of context.bot.send_message *)
(* inside check_inactivity, which the code handles explicitly.             *)
(*                                                                         *)
(* The variable last is a history variable: it records the handler or job  *)
(* step taken last, the value it returned and the replies it sent.         *)
(***************************************************************************)
EXTENDS Integers, Sequences, FiniteSets, TLC

\* ------------------------------------------------------------------ bounds
\* the clock advances at most MaxTicks times, each time by the timeout and one
\* interval of the job
MaxTicks == 1

\* the caller identities (Telegram user ids)
Callers == {1, 2}

\* ------------------------------------------------------- program constants
INACTIVITY_TIMEOUT == 43200
\* the interval of the job check_inactivity, in seconds
interval == 60
retries == 3

\* values a handler returns to the ConversationHandler
RNone == "None"
END == "END"
AUTH == "AUTH"
MAIN_MENU == "MAIN_MENU"

\* ------------------------------------------------------------ python values
Str(s) == [tag |-> "str", s |-> s, items |-> <<>>]
Dict(items) == [tag |-> "dict", s |-> <<>>, items |-> items]

\* the keys of a dict, in insertion order
Keys(d) == [i \in 1..Len(d.items) |-> d.items[i][1]]

HasKey(d, k) == \E i \in 1..Len(d.items) : d.items[i][1] = k

\* d[k] for a dict d that has the key k
Get(d, k) == d.items[CHOOSE i \in 1..Len(d.items) : d.items[i][1] = k][2]

\* a in b for two str values
IsSubstring(a, b) ==
    \E i \in 0..(Len(b) - Len(a)) : SubSeq(b, i + 1, i + Len(a)) = a

\* Python's `text in v`: key membership on a dict, substring test on a str
PyIn(text, v) ==
    IF v.tag = "dict" THEN HasKey(v, text) ELSE IsSubstring(text, v.s)

\* Python's v[k] with a str k raises: TypeError on a str v, KeyError on a
\* dict v without the key k
IndexRaises(v, k) == v.tag = "str" \/ ~HasKey(v, k)

\* -------------------------------------------------------------------- data
\* the reserved texts of handle_message: the labels of the Back button and
\* of the Main menu button, transliterated, and /start
BackText == <<"N", "a", "z", "a", "d">>
MainMenuText == <<"G", "l", "a", "v">>
StartText == <<"/", "s", "t", "a", "r", "t">>

\* data.json as loaded by load_data(): a section with a three-level branch
\* (a plain-text item and a field-set item), a subsection whose value is a
\* plain string, and a section whose value is a plain string
sections ==
    Dict(<< << <<"A">>,
               Dict(<< << <<"B">>,
                          Dict(<< << <<"C">>, Str(<<"x", "c">>) >>,
                                  << <<"D">>, Dict(<< << <<"k">>, Str(<<"v">>) >> >>) >> >>) >>,
                       << <<"E">>, Str(<<"p", "q">>) >> >>) >>,
            << <<"F">>, Str(<<"r", "s">>) >> >>)

\* the texts a caller sends
Texts == { BackText, MainMenuText, StartText,
           <<"A">>, <<"B">>, <<"C">>, <<"D">>, <<"E">>, <<"F">>,
           <<"p">>, <<"r">>, <<"z">> }

\* ------------------------------------------------------------------- state
VARIABLES
    user_data,      \* context.user_data of each caller: authenticated, path
    active_users,   \* context.bot_data['active_users']: dict id -> datetime
    users,          \* table users of bot.db: dict user_id -> employee_number
    requests,       \* table access_requests: dict user_id -> employee_number
    conv,           \* conversation state the ConversationHandler keeps
    now,            \* datetime.now(), in seconds
    sweep,          \* position of a running check_inactivity job
    pending,        \* handle_message suspended in asyncio.sleep before a retry
    last            \* the last step taken: handler, caller, result, replies

vars == <<user_data, active_users, users, requests, conv, now, sweep, pending,
          last>>

\* context.user_data before /start and after user_data.clear()
ClearedUserData == [authenticated |-> FALSE, path |-> <<>>]

\* the employee numbers a caller types
Numbers == { <<"7">>, <<"8">> }

\* contents of the users table when the process starts: caller 1 alone, or
\* both callers
InitialUsers ==
    { Dict(<< <<1, <<"7">> >> >>),
      Dict(<< <<1, <<"7">> >>, <<2, <<"8">> >> >>) }

NoSweep == [pc |-> "idle", cur |-> 0, todo |-> <<>>, stale |-> {},
            current_time |-> 0]
NoPending == [active |-> FALSE, c |-> 0, text |-> <<>>, attempt |-> 0]

\* a step of handler or job op for caller c; a step that completes a run of
\* check_inactivity also records the callers that were old when the run
\* began and the current_time of the run
SweepEvent(op, c, ret, replies, stale, current_time) ==
    [op |-> op, c |-> c, ret |-> ret, replies |-> replies, stale |-> stale,
     current_time |-> current_time]

Event(op, c, ret, replies) == SweepEvent(op, c, ret, replies, {}, 0)

Init ==
    /\ user_data = [c \in Callers |-> ClearedUserData]
    /\ active_users = Dict(<<>>)
    /\ users \in InitialUsers
    /\ requests = Dict(<<>>)
    /\ conv = [c \in Callers |-> END]
    /\ now = 0
    /\ sweep = NoSweep
    /\ pending = NoPending
    /\ last = Event("init", 0, RNone, <<>>)

\* ------------------------------------------------------------ dict updates
\* d[k] = v: replaces the value in place or appends a new key
Put(d, k, v) ==
    IF HasKey(d, k)
    THEN Dict([i \in 1..Len(d.items) |->
                 IF d.items[i][1] = k THEN <<k, v>> ELSE d.items[i]])
    ELSE Dict(Append(d.items, <<k, v>>))

\* del d[k]
Delete(d, k) ==
    LET keep(e) == e[1] # k IN Dict(SelectSeq(d.items, keep))

is_user_in_db(user_id) == HasKey(users, user_id)

\* what the ConversationHandler does with a handler's return value
NextConv(state, ret) == IF ret = RNone THEN state ELSE ret

\* ----------------------------------------------------------------- replies
\* A reply_text call: the message it carries, reduced to its kind, the rows
\* of its ReplyKeyboardMarkup, the title and body of a leaf message, and the
\* result list of a search.
Reply(kind, keyboard, title, body, results) ==
    [kind |-> kind, keyboard |-> keyboard, title |-> title, body |-> body,
     results |-> results]

Message(kind) == Reply(kind, <<>>, <<>>, <<>>, <<>>)
Menu(kind, keyboard) == Reply(kind, keyboard, <<>>, <<>>, <<>>)

Kinds(replies) == [i \in 1..Len(replies) |-> replies[i].kind]

\* the row of the Back and Main menu buttons
ControlRow == <<BackText, MainMenuText>>

\* [[key] for key in d.keys()]
KeyRows(d) == [i \in 1..Len(d.items) |-> <<d.items[i][1]>>]

\* --------------------------------------------------------------- rendering
\* the characters escape_markdown prefixes with a backslash; the grave accent
\* of the source is written ^
escape_chars ==
    {"\\", "_", "*", "[", "]", "(", ")", "~", "^", ">", "#", "+", "-", "=",
     "|", "{", "}", ".", "!"}

RECURSIVE escape_markdown(_)
escape_markdown(text) ==
    IF text = <<>> THEN <<>>
    ELSE (IF Head(text) \in escape_chars THEN <<"\\", Head(text)>>
          ELSE <<Head(text)>>) \o escape_markdown(Tail(text))

Whitespace == {" ", "\n"}

RECURSIVE lstrip(_)
lstrip(text) ==
    IF text # <<>> /\ Head(text) \in Whitespace THEN lstrip(Tail(text))
    ELSE text

RECURSIVE rstrip(_)
rstrip(text) ==
    IF text # <<>> /\ text[Len(text)] \in Whitespace
    THEN rstrip(SubSeq(text, 1, Len(text) - 1))
    ELSE text

\* str.strip()
strip(text) == rstrip(lstrip(text))

\* the lines of format_description, one per field: bullet, key in asterisks,
\* colon, value in underscores, newline; the bullet character is written @
RECURSIVE format_fields(_)
format_fields(items) ==
    IF items = <<>> THEN <<>>
    ELSE <<"@", " ", "*">> \o items[1][1] \o <<"*", ":", " ", "_">>
         \o items[1][2].s \o <<"_", "\n">> \o format_fields(Tail(items))

format_description(description) ==
    IF description.tag = "dict" THEN strip(format_fields(description.items))
    ELSE description.s

\* ------------------------------------------------------------------ search
UpperCase == <<"A", "B", "C", "D", "E", "F", "G", "H", "I", "J", "K", "L", "M",
               "N", "O", "P", "Q", "R", "S", "T", "U", "V", "W", "X", "Y", "Z">>
LowerCase == <<"a", "b", "c", "d", "e", "f", "g", "h", "i", "j", "k", "l", "m",
               "n", "o", "p", "q", "r", "s", "t", "u", "v", "w", "x", "y", "z">>

\* str.lower()
lower(text) ==
    [i \in 1..Len(text) |->
        IF \E j \in 1..26 : UpperCase[j] = text[i]
        THEN LowerCase[CHOOSE j \in 1..26 : UpperCase[j] = text[i]]
        ELSE text[i]]

\* text.replace(old, "")
RECURSIVE remove_all(_, _)
remove_all(text, old) ==
    IF Len(text) < Len(old) THEN text
    ELSE IF SubSeq(text, 1, Len(old)) = old
    THEN remove_all(SubSeq(text, Len(old) + 1, Len(text)), old)
    ELSE <<Head(text)>> \o remove_all(Tail(text), old)

SearchCommand == <<"/", "s", "e", "a", "r", "c", "h">>

RECURSIVE search_data(_, _, _)
RECURSIVE search_items(_, _, _)

\* search_data that does not look inside the value of an item
search_data_no_fields(query, data, path) ==
    IF data.tag = "dict"
    THEN IF Len(path) >= 3 THEN <<>>
         ELSE search_items(query, data.items, path)
    ELSE IF IsSubstring(lower(query), lower(data.s))
    THEN << [path |-> path, value |-> data] >>
    ELSE <<>>

\* search_data: the list of (path, value) matches of query in data, in the
\* order of discovery
search_data(query, data, path) ==
    IF data.tag = "dict" THEN search_items(query, data.items, path)
    ELSE IF IsSubstring(lower(query), lower(data.s))
    THEN << [path |-> path, value |-> data] >>
    ELSE <<>>

\* search_items that passes path, not new_path, on
search_items_flat_path(query, items, path) ==
    IF items = <<>> THEN <<>>
    ELSE LET key == items[1][1]
             value == items[1][2]
         IN  (IF IsSubstring(lower(query), lower(key))
              THEN << [path |-> path, value |-> value] >>
              ELSE <<>>)
             \o search_data(query, value, path)
             \o search_items(query, Tail(items), path)

\* the loop `for key, value in data.items()` of search_data
search_items(query, items, path) ==
    IF items = <<>> THEN <<>>
    ELSE LET key == items[1][1]
             value == items[1][2]
             new_path == Append(path, key)
         IN  (IF IsSubstring(lower(query), lower(key))
              THEN << [path |-> new_path, value |-> value] >>
              ELSE <<>>)
             \o search_data(query, value, new_path)
             \o search_items(query, Tail(items), path)

\* search_replies without the test `if not query`
search_replies_no_empty_check(authenticated, text) ==
    LET query == strip(remove_all(text, SearchCommand))
        results == search_data(query, sections, <<>>)
    IN
    IF ~authenticated THEN <<Message("not_authenticated")>>
    ELSE IF results = <<>> THEN <<Message("nothing_found")>>
    ELSE <<Reply("search_results", <<>>, <<>>, <<>>, results)>>

\* the replies of search_command to the message text of a caller
search_replies(authenticated, text) ==
    LET query == strip(remove_all(text, SearchCommand))
        results == search_data(query, sections, <<>>)
    IN
    IF ~authenticated THEN <<Message("not_authenticated")>>
    ELSE IF query = <<>> THEN <<Message("empty_query")>>
    ELSE IF results = <<>> THEN <<Message("nothing_found")>>
    ELSE <<Reply("search_results", <<>>, <<>>, <<>>, results)>>

\* the messages a caller sends as the /search command
SearchTexts ==
    { SearchCommand \o <<" ">>, SearchCommand \o <<" ", "X">> }

\* the /search messages of the specification of the search alone: no
\* query, blank queries, queries in a label, in a description, in a field
\* label and in a field value, and a query found nowhere
SearchQueries ==
    SearchTexts \cup
    { SearchCommand,
      SearchCommand \o <<" ", "\n", " ">>,
      SearchCommand \o <<" ", "d">>,
      SearchCommand \o <<" ", "c">>,
      SearchCommand \o <<" ", "K">>,
      SearchCommand \o <<" ", "v">>,
      SearchCommand \o <<" ", "r", "s">>,
      SearchCommand \o <<" ", "z">> }

\* search_replies for every message of SearchQueries
search_table ==
    [authenticated \in BOOLEAN, text \in SearchQueries |->
        search_replies(authenticated, text)]

\* ---------------------------------------------------------------- handlers
\* The outcome of a piece of handler code: the user_data of the caller after
\* it, the value returned, the replies sent, and whether an exception escaped.
Outcome(ud, ret, replies, raised) ==
    [ud |-> ud, ret |-> ret, replies |-> replies, raised |-> raised]

\* main_menu without the assignment of the empty path
main_menu_keep_path(ud) ==
    Outcome(ud, MAIN_MENU, <<Menu("menu_root", KeyRows(sections))>>, FALSE)

\* main_menu: resets the path and shows the sections
main_menu(ud) ==
    Outcome([ud EXCEPT !.path = <<>>], MAIN_MENU,
            <<Menu("menu_root", KeyRows(sections))>>, FALSE)

\* start_body without the lookup in the users table
start_body_unchecked(c, ud) ==
    LET m == main_menu([ud EXCEPT !.authenticated = TRUE])
    IN  Outcome(m.ud, m.ret, <<Message("help")>> \o m.replies, FALSE)

\* the body of start for a caller with user_data ud
start_body(c, ud) ==
    IF is_user_in_db(c)
    THEN LET m == main_menu([ud EXCEPT !.authenticated = TRUE])
         IN  Outcome(m.ud, m.ret, <<Message("help")>> \o m.replies, FALSE)
    ELSE Outcome(ud, END, <<Message("access_denied")>>, FALSE)

\* show_current_level: the replies it sends for a path; an exception raised
\* inside it is caught there and answered with the error message
show_current_level(path) ==
    IF path = <<>> THEN <<Menu("menu_root", KeyRows(sections))>>
    ELSE IF Len(path) = 1 THEN
        \* sections[current_section].keys()
        IF IndexRaises(sections, path[1]) \/ Get(sections, path[1]).tag = "str"
        THEN <<Message("error")>>
        ELSE <<Menu("menu_section",
                    Append(KeyRows(Get(sections, path[1])), ControlRow))>>
    ELSE IF Len(path) = 2 THEN
        \* sections[current_section][current_subsection]
        IF \/ IndexRaises(sections, path[1])
           \/ IndexRaises(Get(sections, path[1]), path[2])
        THEN <<Message("error")>>
        ELSE LET subsubsections == Get(Get(sections, path[1]), path[2])
             IN  <<Menu("menu_subsection",
                        Append(IF subsubsections.tag = "dict"
                               THEN KeyRows(subsubsections) ELSE <<>>,
                               ControlRow))>>
    ELSE <<>>

\* `if not current_path and text in sections:` ... of handle_message
select_section(ud, text) ==
    Outcome([ud EXCEPT !.path = <<text>>], RNone,
            show_current_level(<<text>>), FALSE)

\* `elif len(current_path) == 1:` ... of handle_message
select_subsection(ud, text) ==
    LET current_section == ud.path[1] IN
    IF IndexRaises(sections, current_section)
    THEN Outcome(ud, RNone, <<>>, TRUE)
    ELSE IF PyIn(text, Get(sections, current_section))
    THEN LET path == Append(ud.path, text)
         IN  Outcome([ud EXCEPT !.path = path], RNone,
                     show_current_level(path), FALSE)
    ELSE Outcome(ud, RNone, <<>>, FALSE)

\* select_item with the description of the first item of the subsection
select_item_first_description(ud, text) ==
    LET current_section == ud.path[1]
        current_subsection == ud.path[2]
    IN
    IF \/ IndexRaises(sections, current_section)
       \/ IndexRaises(Get(sections, current_section), current_subsection)
    THEN Outcome(ud, RNone, <<>>, TRUE)
    ELSE LET node == Get(Get(sections, current_section), current_subsection)
         IN
         IF PyIn(text, node)
         THEN LET appended == [ud EXCEPT !.path = Append(ud.path, text)]
              IN  IF IndexRaises(node, text)
                  THEN Outcome(appended, RNone, <<>>, TRUE)
                  ELSE Outcome(appended, RNone,
                               <<Reply("leaf", <<>>, escape_markdown(text),
                                       escape_markdown(
                                           format_description(node.items[1][2])),
                                       <<>>),
                                 Menu("controls", <<ControlRow>>)>>,
                               FALSE)
         ELSE Outcome(ud, RNone, <<>>, FALSE)

\* `elif len(current_path) == 2:` ... of handle_message
select_item(ud, text) ==
    LET current_section == ud.path[1]
        current_subsection == ud.path[2]
    IN
    IF \/ IndexRaises(sections, current_section)
       \/ IndexRaises(Get(sections, current_section), current_subsection)
    THEN Outcome(ud, RNone, <<>>, TRUE)
    ELSE LET node == Get(Get(sections, current_section), current_subsection)
         IN
         IF PyIn(text, node)
         THEN LET appended == [ud EXCEPT !.path = Append(ud.path, text)]
              IN  \* description = sections[...][...][text]
                  IF IndexRaises(node, text)
                  THEN Outcome(appended, RNone, <<>>, TRUE)
                  ELSE Outcome(appended, RNone,
                               <<Reply("leaf", <<>>, escape_markdown(text),
                                       escape_markdown(
                                           format_description(Get(node, text))),
                                       <<>>),
                                 Menu("controls", <<ControlRow>>)>>,
                               FALSE)
         ELSE Outcome(ud, RNone, <<>>, FALSE)

\* navigate with the branch of the item level taken at every depth from 2 on
navigate_any_depth(c, ud, text) ==
    IF text = BackText THEN
        LET path == IF ud.path # <<>>
                    THEN SubSeq(ud.path, 1, Len(ud.path) - 1)
                    ELSE ud.path
        IN  Outcome([ud EXCEPT !.path = path], RNone,
                    show_current_level(path), FALSE)
    ELSE IF text = MainMenuText THEN main_menu(ud)
    ELSE IF text = StartText THEN start_body(c, ud)
    ELSE IF ud.path = <<>> /\ PyIn(text, sections) THEN select_section(ud, text)
    ELSE IF Len(ud.path) = 1 THEN select_subsection(ud, text)
    ELSE IF Len(ud.path) >= 2 THEN select_item(ud, text)
    ELSE Outcome(ud, RNone, <<Message("unknown_command")>>, FALSE)

\* one pass of the retry loop of handle_message for an authenticated caller,
\* after the write to active_users
navigate(c, ud, text) ==
    IF text = BackText THEN
        LET path == IF ud.path # <<>>
                    THEN SubSeq(ud.path, 1, Len(ud.path) - 1)
                    ELSE ud.path
        IN  Outcome([ud EXCEPT !.path = path], RNone,
                    show_current_level(path), FALSE)
    ELSE IF text = MainMenuText THEN main_menu(ud)
    ELSE IF text = StartText THEN start_body(c, ud)
    ELSE IF ud.path = <<>> /\ PyIn(text, sections) THEN select_section(ud, text)
    ELSE IF Len(ud.path) = 1 THEN select_subsection(ud, text)
    ELSE IF Len(ud.path) = 2 THEN select_item(ud, text)
    ELSE Outcome(ud, RNone, <<Message("unknown_command")>>, FALSE)

\* ----------------------------------------------------------------- actions
\* Updates are processed one at a time (Application.concurrent_updates is
\* off), so a handler starts only when no handler is suspended; the job
\* check_inactivity runs on the same event loop and interleaves at awaits.
NoHandlerRunning == ~pending.active

\* start with a write to active_users
start_and_register(c) ==
    /\ NoHandlerRunning
    /\ LET o == start_body(c, user_data[c]) IN
       /\ user_data' = [user_data EXCEPT ![c] = o.ud]
       /\ conv' = [conv EXCEPT ![c] = NextConv(conv[c], o.ret)]
       /\ last' = Event("start", c, o.ret, o.replies)
    /\ active_users' = Put(active_users, c, now)
    /\ UNCHANGED <<users, requests, now, sweep, pending>>

\* /start
start(c) ==
    /\ NoHandlerRunning
    /\ LET o == start_body(c, user_data[c]) IN
       /\ user_data' = [user_data EXCEPT ![c] = o.ud]
       /\ conv' = [conv EXCEPT ![c] = NextConv(conv[c], o.ret)]
       /\ last' = Event("start", c, o.ret, o.replies)
    /\ UNCHANGED <<active_users, users, requests, now, sweep, pending>>

\* refresh_activity with the write placed before the authentication check
refresh_activity_unchecked(c) == Put(active_users, c, now)

\* context.bot_data['active_users'] after one pass of handle_message for c
refresh_activity(c) ==
    IF user_data[c].authenticated
    THEN Put(active_users, c, now)
    ELSE active_users

\* one pass of the body of `for attempt in range(retries)` of handle_message
handle_message_pass(c, text, attempt) ==
    IF ~user_data[c].authenticated
    THEN /\ last' = Event("handle_message", c, RNone,
                          <<Message("not_authenticated")>>)
         /\ active_users' = refresh_activity(c)
         /\ pending' = NoPending
         /\ UNCHANGED <<user_data, users, requests, conv, now, sweep>>
    ELSE LET o == navigate(c, user_data[c], text)
             final == attempt = retries - 1
         IN
         /\ active_users' = refresh_activity(c)
         /\ user_data' = [user_data EXCEPT ![c] = o.ud]
         /\ IF o.raised
            THEN /\ pending' = IF final THEN NoPending
                               ELSE [active |-> TRUE, c |-> c, text |-> text,
                                     attempt |-> attempt + 1]
                 /\ last' = Event("handle_message", c,
                                  IF final THEN RNone ELSE "Retry",
                                  IF final THEN <<Message("error")>> ELSE <<>>)
                 /\ UNCHANGED conv
            ELSE /\ pending' = NoPending
                 /\ conv' = [conv EXCEPT ![c] = NextConv(conv[c], o.ret)]
                 /\ last' = Event("handle_message", c, o.ret, o.replies)
         /\ UNCHANGED <<users, requests, now, sweep>>

\* a text message arrives at handle_message
handle_message(c, text) ==
    /\ NoHandlerRunning
    /\ handle_message_pass(c, text, 0)

\* handle_message wakes from asyncio.sleep(5) and runs the next attempt
handle_message_retry ==
    /\ pending.active
    /\ handle_message_pass(pending.c, pending.text, pending.attempt)

\* exit_bot that clears the user_data of every caller
exit_bot_everyone(c) ==
    /\ NoHandlerRunning
    /\ IF ~user_data[c].authenticated
       THEN /\ last' = Event("exit_bot", c, RNone,
                             <<Message("not_authenticated")>>)
            /\ UNCHANGED <<user_data, conv>>
       ELSE /\ user_data' = [d \in Callers |-> ClearedUserData]
            /\ conv' = [conv EXCEPT ![c] = NextConv(conv[c], END)]
            /\ last' = Event("exit_bot", c, END, <<Message("logged_out")>>)
    /\ UNCHANGED <<active_users, users, requests, now, sweep, pending>>

\* /exit
exit_bot(c) ==
    /\ NoHandlerRunning
    /\ IF ~user_data[c].authenticated
       THEN /\ last' = Event("exit_bot", c, RNone,
                             <<Message("not_authenticated")>>)
            /\ UNCHANGED <<user_data, conv>>
       ELSE /\ user_data' = [user_data EXCEPT ![c] = ClearedUserData]
            /\ conv' = [conv EXCEPT ![c] = NextConv(conv[c], END)]
            /\ last' = Event("exit_bot", c, END, <<Message("logged_out")>>)
    /\ UNCHANGED <<active_users, users, requests, now, sweep, pending>>

\* /search
search_command(c, text) ==
    /\ NoHandlerRunning
    /\ last' = Event("search_command", c, RNone,
                     search_table[user_data[c].authenticated, text])
    /\ UNCHANGED <<user_data, active_users, users, requests, conv, now, sweep, pending>>

\* ---------------------------------------------------------- access requests
\* OWNER_ID = int(os.getenv("OWNER_ID")): the Telegram id of the owner, here
\* the first caller
OWNER_ID == CHOOSE c \in Callers : \A d \in Callers : c <= d

\* the owner check passed by every caller
not_owner_nobody(c) == FALSE

\* user.id != OWNER_ID
not_owner(c) == c # OWNER_ID

DigitChars == <<"0", "1", "2", "3", "4", "5", "6", "7", "8", "9">>

\* int(token) raises ValueError unless the token is a decimal numeral (signs
\* and underscores are not among the inputs)
IsNumeral(token) ==
    /\ token # <<>>
    /\ \A i \in 1..Len(token) : \E d \in 1..10 : DigitChars[d] = token[i]

RECURSIVE int(_)
int(token) ==
    IF token = <<>> THEN 0
    ELSE 10 * int(SubSeq(token, 1, Len(token) - 1))
         + (CHOOSE d \in 0..9 : DigitChars[d + 1] = token[Len(token)])

\* str.split(): the maximal runs of characters that are not whitespace
RECURSIVE split(_)
split(text) ==
    LET t == lstrip(text) IN
    IF t = <<>> THEN <<>>
    ELSE LET stops == {i \in 1..Len(t) : t[i] \in Whitespace}
             n == IF stops = {} THEN Len(t) + 1
                  ELSE CHOOSE i \in stops : \A j \in stops : i <= j
         IN <<SubSeq(t, 1, n - 1)>> \o split(SubSeq(t, n, Len(t)))

\* add_access_request: the INSERT fails with IntegrityError, which is caught,
\* when the table has a row of this user_id
add_access_request(table, user_id, employee_number) ==
    IF HasKey(table, user_id) THEN table
    ELSE Put(table, user_id, employee_number)

delete_access_request(table, user_id) == Delete(table, user_id)

\* add_user_to_db: every attempt of the INSERT fails with IntegrityError when
\* the user_id (primary key) or the employee_number (UNIQUE) is in the table;
\* after the last attempt the function returns without raising
add_user_to_db(table, user_id, employee_number) ==
    IF \/ HasKey(table, user_id)
       \/ \E i \in 1..Len(table.items) : table.items[i][2] = employee_number
    THEN table
    ELSE Put(table, user_id, employee_number)

\* the button "Send request"; main() registers the handler outside the
\* ConversationHandler, so the value it returns changes no conversation
handle_request_access(c) ==
    /\ NoHandlerRunning
    /\ last' = IF HasKey(requests, c)
               THEN Event("handle_request_access", c, END,
                          <<Message("already_requested")>>)
               ELSE Event("handle_request_access", c, AUTH,
                          <<Message("enter_employee_number")>>)
    /\ UNCHANGED <<user_data, active_users, users, requests, conv, now, sweep,
                   pending>>

\* the text of the state AUTH; the message to OWNER_ID is recorded among the
\* replies as new_request; when send_message raises, the handler ends there
handle_employee_number(c, text, delivered) ==
    /\ NoHandlerRunning
    /\ requests' = add_access_request(requests, c, text)
    /\ IF delivered
       THEN /\ last' = Event("handle_employee_number", c, END,
                             <<Message("new_request"),
                               Message("request_sent")>>)
            /\ conv' = [conv EXCEPT ![c] = NextConv(conv[c], END)]
       ELSE /\ last' = Event("handle_employee_number", c, RNone, <<>>)
            /\ UNCHANGED conv
    /\ UNCHANGED <<user_data, active_users, users, now, sweep, pending>>

\* /add_user
add_user(c) ==
    /\ NoHandlerRunning
    /\ last' = IF not_owner(c)
               THEN Event("add_user", c, RNone, <<Message("no_rights")>>)
               ELSE IF requests.items = <<>>
               THEN Event("add_user", c, RNone, <<Message("no_requests")>>)
               ELSE Event("add_user", c, AUTH,
                          <<Reply("request_list", <<>>, <<>>, <<>>,
                                  requests.items)>>)
    /\ UNCHANGED <<user_data, active_users, users, requests, conv, now, sweep,
                   pending>>

\* the line "<id> <employee number>" of the owner; main() registers no
\* handler for it, so the value it returns changes no conversation
handle_add_user(c, text) ==
    /\ NoHandlerRunning
    /\ LET words == split(text)
           wellformed == Len(words) = 2 /\ IsNumeral(words[1])
           user_id == int(words[1])
       IN
       IF not_owner(c)
       THEN /\ last' = Event("handle_add_user", c, END,
                             <<Message("no_rights")>>)
            /\ UNCHANGED <<users, requests>>
       ELSE IF ~wellformed
       THEN /\ last' = Event("handle_add_user", c, AUTH,
                             <<Message("bad_format")>>)
            /\ UNCHANGED <<users, requests>>
       ELSE IF ~HasKey(requests, user_id)
       THEN /\ last' = Event("handle_add_user", c, AUTH,
                             <<Message("request_not_found")>>)
            /\ UNCHANGED <<users, requests>>
       ELSE /\ users' = add_user_to_db(users, user_id, words[2])
            /\ requests' = delete_access_request(requests, user_id)
            /\ last' = Event("handle_add_user", c, END,
                             <<Message("user_added")>>)
    /\ UNCHANGED <<user_data, active_users, conv, now, sweep, pending>>

\* ------------------------------------------------------- inactivity monitor
\* the callers of the snapshot list(active_users.items()) whose entry is
\* older than INACTIVITY_TIMEOUT at current_time, in the order of the list
expired_users(snapshot, current_time) ==
    LET old(e) == current_time - e[2] > INACTIVITY_TIMEOUT
        entries == SelectSeq(snapshot.items, old)
    IN  [i \in 1..Len(entries) |-> entries[i][1]]

\* after_notification with the deletion in the try block, after send_message
after_notification_if_delivered(registry, user_id, delivered) ==
    IF delivered /\ HasKey(registry, user_id)
    THEN Delete(registry, user_id)
    ELSE registry

\* the registry once the notification of user_id has been attempted: the
\* finally clause of check_inactivity
after_notification(registry, user_id, delivered) ==
    IF HasKey(registry, user_id) THEN Delete(registry, user_id) ELSE registry

\* check_inactivity runs up to its first await: it takes current_time and
\* the snapshot, skips the entries that are not old, and starts sending the
\* notification to the first old one; with no old entry the job is over
check_inactivity_start ==
    /\ sweep.pc = "idle"
    /\ LET expired == expired_users(active_users, now) IN
       IF expired = <<>>
       THEN /\ sweep' = NoSweep
            /\ last' = SweepEvent("check_inactivity", 0, "done", <<>>, {}, now)
       ELSE /\ sweep' = [pc |-> "sending", cur |-> Head(expired),
                         todo |-> Tail(expired),
                         stale |-> {expired[i] : i \in 1..Len(expired)},
                         current_time |-> now]
            /\ last' = Event("check_inactivity", 0, "sending", <<>>)
    /\ UNCHANGED <<user_data, active_users, users, requests, conv, now, pending>>

\* send_message to sweep.cur returns or raises; the entry is deleted and the
\* loop goes on to the next old entry of the snapshot
check_inactivity_resume(delivered) ==
    /\ sweep.pc = "sending"
    /\ active_users' = after_notification(active_users, sweep.cur, delivered)
    /\ sweep' = IF sweep.todo = <<>>
                THEN NoSweep
                ELSE [sweep EXCEPT !.cur = Head(sweep.todo),
                                   !.todo = Tail(sweep.todo)]
    /\ last' = LET notice == IF delivered
                             THEN <<Message("logged_out_inactive")>>
                             ELSE <<>>
               IN  IF sweep.todo = <<>>
                   THEN SweepEvent("expire", sweep.cur, "done", notice,
                                   sweep.stale, sweep.current_time)
                   ELSE Event("expire", sweep.cur, "sending", notice)
    /\ UNCHANGED <<user_data, users, requests, conv, now, pending>>

\* time passes: the clock moves past one more timeout.  A suspended handler
\* (asyncio.sleep(5)) and a pending send_message resume long before that, so
\* the step is taken between them.
Period == INACTIVITY_TIMEOUT + interval
MaxClock == MaxTicks * Period

Advance ==
    /\ now < MaxClock
    /\ NoHandlerRunning
    /\ sweep.pc = "idle"
    /\ now' = now + Period
    /\ last' = Event("advance", 0, RNone, <<>>)
    /\ UNCHANGED <<user_data, active_users, users, requests, conv, sweep, pending>>

\* ---------------------------------------------------------- specifications
\* filters.COMMAND
IsCommand(text) == text # <<>> /\ Head(text) = "/"

\* The handlers as main() registers them: /start is an entry point and a
\* fallback of the ConversationHandler, handle_message serves the state
\* MAIN_MENU for text that is not a command, /exit is a fallback (it needs a
\* running conversation), /search is a handler of its own.
Next ==
    \/ \E c \in Callers : start(c)
    \/ \E c \in Callers, text \in Texts :
          conv[c] = MAIN_MENU /\ ~IsCommand(text) /\ handle_message(c, text)
    \/ handle_message_retry
    \/ \E c \in Callers : conv[c] # END /\ exit_bot(c)
    \/ \E c \in Callers, text \in SearchTexts : search_command(c, text)
    \/ check_inactivity_start
    \/ \E delivered \in BOOLEAN : check_inactivity_resume(delivered)
    \/ Advance

Spec == Init /\ [][Next]_vars

\* The handlers called directly, in any order, as src/test_bot.py calls them.
NextDirect ==
    \/ \E c \in Callers : start(c)
    \/ \E c \in Callers, text \in Texts : handle_message(c, text)
    \/ handle_message_retry
    \/ \E c \in Callers : exit_bot(c)
    \/ \E c \in Callers, text \in SearchTexts : search_command(c, text)
    \/ check_inactivity_start
    \/ \E delivered \in BOOLEAN : check_inactivity_resume(delivered)
    \/ Advance

SpecDirect == Init /\ [][NextDirect]_vars

\* the text of handle_message in the specifications of the access requests
\* and of the search: a section
AccessTexts == { <<"A">> }
AddUserTexts == { <<"2", " ", "7">>, <<"2", " ", "8">>, <<"2">> }

\* The handlers of the session and of the access requests called directly,
\* in any order; the clock stands still.
NextAccess ==
    \/ \E c \in Callers : start(c)
    \/ \E c \in Callers : handle_request_access(c)
    \/ \E c \in Callers, text \in Numbers, delivered \in BOOLEAN :
          handle_employee_number(c, text, delivered)
    \/ \E c \in Callers : add_user(c)
    \/ \E c \in Callers, text \in AddUserTexts : handle_add_user(c, text)
    \/ \E c \in Callers, text \in AccessTexts : handle_message(c, text)
    \/ \E c \in Callers, text \in SearchTexts : search_command(c, text)
    \/ \E c \in Callers : exit_bot(c)

SpecAccess == Init /\ [][NextAccess]_vars

\* the texts of handle_message in the specification of the activity times:
\* a section, the Back button and a text that is no label
ActivityTexts == { <<"A">>, BackText, <<"z">> }

\* The handlers of the authentication stage and handle_message called
\* directly, in any order, while time passes.
NextActivity ==
    \/ \E c \in Callers : start(c)
    \/ \E c \in Callers : handle_request_access(c)
    \/ \E c \in Callers, text \in Numbers, delivered \in BOOLEAN :
          handle_employee_number(c, text, delivered)
    \/ \E c \in Callers, text \in ActivityTexts : handle_message(c, text)
    \/ \E c \in Callers : exit_bot(c)
    \/ Advance

SpecActivity == Init /\ [][NextActivity]_vars

\* the labels of the buttons "Send request" and "Help", transliterated
RequestText == <<"Z", "a", "p", "r", "o", "s">>
HelpText == <<"P", "o", "m">>

\* the button "Help"
handle_help(c) ==
    /\ NoHandlerRunning
    /\ last' = Event("handle_help", c, RNone, <<Message("help")>>)
    /\ UNCHANGED <<user_data, active_users, users, requests, conv, now, sweep,
                   pending>>

\* /help
help_command(c) ==
    /\ NoHandlerRunning
    /\ last' = Event("help_command", c, RNone, <<Message("help")>>)
    /\ UNCHANGED <<user_data, active_users, users, requests, conv, now, sweep,
                   pending>>

\* A text that is not a command, as the handlers of main() receive it: the
\* ConversationHandler comes first and takes the text in the states AUTH
\* and MAIN_MENU; a caller without a conversation is served by the button
\* handlers when the text is the label of a button, and by no handler
\* otherwise.
text_update(c, text, delivered) ==
    IF conv[c] = AUTH THEN handle_employee_number(c, text, delivered)
    ELSE IF conv[c] = MAIN_MENU THEN handle_message(c, text)
    ELSE IF text = RequestText THEN handle_request_access(c)
    ELSE IF text = HelpText THEN handle_help(c)
    ELSE /\ NoHandlerRunning
         /\ last' = Event("no_handler", c, RNone, <<>>)
         /\ UNCHANGED <<user_data, active_users, users, requests, conv, now,
                        sweep, pending>>

\* the texts of the specification of the routed access requests: the two
\* buttons, an employee number and a section
RoutedTexts == { RequestText, HelpText, <<"7">>, <<"A">> }

\* The handlers of the session and of the access requests as main()
\* registers them; the clock stands still.
NextRouted ==
    \/ \E c \in Callers : start(c)
    \/ \E c \in Callers, text \in RoutedTexts, delivered \in BOOLEAN :
          text_update(c, text, delivered)
    \/ \E c \in Callers : add_user(c)
    \/ \E c \in Callers : help_command(c)
    \/ \E c \in Callers, text \in SearchTexts : search_command(c, text)
    \/ \E c \in Callers : conv[c] # END /\ exit_bot(c)

SpecRouted == Init /\ [][NextRouted]_vars

\* /start, /exit, the selection of a section and /search with every message
\* of SearchQueries, called directly; the clock stands still.
NextSearch ==
    \/ \E c \in Callers : start(c)
    \/ \E c \in Callers : exit_bot(c)
    \/ \E c \in Callers, text \in AccessTexts : handle_message(c, text)
    \/ \E c \in Callers, text \in SearchQueries : search_command(c, text)

SpecSearch == Init /\ [][NextSearch]_vars

\* The job queue runs check_inactivity every 60 seconds and the event loop
\* resumes every suspended coroutine; time passes.
LiveSpec ==
    /\ Spec
    /\ WF_vars(Advance)
    /\ WF_vars(check_inactivity_start)
    /\ WF_vars(\E delivered \in BOOLEAN : check_inactivity_resume(delivered))
    /\ WF_vars(handle_message_retry)

TypeOK ==
    /\ \A c \in Callers : user_data[c].authenticated \in BOOLEAN
    /\ now \in 0..MaxClock
    /\ sweep.pc \in {"idle", "sending"}

\* ------------------------------------------------------------------ claims
Path(c) == user_data[c].path
Authenticated(c) == user_data[c].authenticated
Registered(c) == HasKey(active_users, c)

\* a handler has just finished a message of caller c
Handled(op, c) == last.op = op /\ last.c = c /\ last.ret # "Retry"

\* C1 (as stated): in every reachable state the path of every caller has
\* length 0, 1 or 2.
C1_PathAtMostTwo == \A c \in Callers : Len(Path(c)) <= 2

\* C1 (amended): in every reachable state the path of every caller has length
\* 0, 1, 2 or 3; no sequence of inputs produces a path of length 4 or more.
C1_PathAtMostThree == \A c \in Callers : Len(Path(c)) <= 3

\* C1 witness: an item label was pushed at depth 2 and its leaf was shown.
C1_LeafShown ==
    \E c \in Callers :
        /\ Handled("handle_message", c)
        /\ Len(Path(c)) = 3
        /\ Kinds(last.replies) = <<"leaf", "controls">>

\* ValidPath: every label of path is a key of the tree at its depth
ValidPath(path) ==
    /\ Len(path) >= 1 => HasKey(sections, path[1])
    /\ Len(path) >= 2 =>
          /\ Get(sections, path[1]).tag = "dict"
          /\ HasKey(Get(sections, path[1]), path[2])
    /\ Len(path) >= 3 =>
          /\ Get(Get(sections, path[1]), path[2]).tag = "dict"
          /\ HasKey(Get(Get(sections, path[1]), path[2]), path[3])

\* C2: in every reachable state every label of a session path is a key of
\* the menu tree at its depth, also where a section or a subsection is a
\* plain string.
C2_PathLabelsValid == \A c \in Callers : ValidPath(Path(c))

\* C3: once the sweep has expired a caller, the session of that caller is
\* not authenticated and has no path.
C3_ExpiredIsLoggedOut ==
    last.op = "expire" => ~Authenticated(last.c) /\ Path(last.c) = <<>>

\* a run of check_inactivity has just completed
TickDone == last.op \in {"check_inactivity", "expire"} /\ last.ret = "done"

\* C4 (as stated): after a sweep tick completes, every caller whose entry was
\* older than the timeout when the tick began is absent from active_users.
C4_StaleAbsent == TickDone => \A u \in last.stale : ~Registered(u)

\* C4 (amended): after a sweep tick completes, no entry that was older than
\* the timeout when the tick began is left in active_users, whether the
\* notifications were delivered or not: every such caller is absent, or has
\* an entry written by a message handled after the tick began.
C4_NoStaleEntryLeft ==
    TickDone =>
        \A u \in last.stale :
            Registered(u) => Get(active_users, u) >= last.current_time

\* C4 witness: a tick that had an old entry completed after a notification
\* failed, and the caller is absent.
C4_ExpiredUndelivered ==
    /\ TickDone
    /\ last.op = "expire"
    /\ last.replies = <<>>
    /\ last.c \in last.stale
    /\ ~Registered(last.c)

\* C5: the sweep never removes an entry of active_users that was refreshed
\* within the timeout: an entry that a step removes is older than
\* INACTIVITY_TIMEOUT at that step.
C5_OnlyStaleRemoved ==
    [][\A u \in Callers :
          (Registered(u) /\ ~HasKey(active_users', u))
              => now - Get(active_users, u) > INACTIVITY_TIMEOUT]_vars

\* the last step was an input of caller c
InputBy(c) ==
    /\ last.c = c
    /\ last.op \in {"start", "handle_message", "exit_bot", "search_command"}

\* C6: an authenticated session that receives no further input is eventually
\* expired by the inactivity monitor (the job reaches the caller or the
\* session stops being authenticated), also when it was authenticated by
\* /start and sent no text afterwards.
C6_IdleSessionExpires ==
    \A c \in Callers :
        (Authenticated(c) /\ ~InputBy(c) /\ now < MaxClock)
            ~> \/ ~Authenticated(c)
               \/ last.op = "expire" /\ last.c = c
               \/ InputBy(c)

\* C7: after /exit in an authenticated session, the session is cleared and
\* the caller is absent from active_users.
C7_ExitUnregisters ==
    \A c \in Callers :
        (Handled("exit_bot", c) /\ last.ret = END)
            => /\ ~Authenticated(c)
               /\ Path(c) = <<>>
               /\ ~Registered(c)

\* C8: for a session that is not authenticated, handle_message, /search and
\* /exit answer with the not-authenticated message, return normally, and
\* leave the session, the entry of the caller in active_users and the
\* registry unchanged.
C8_NotAuthenticatedNoEffect ==
    [][\A c \in Callers :
          (/\ ~Authenticated(c)
           /\ last'.c = c
           /\ last'.op \in {"handle_message", "search_command", "exit_bot"})
              => /\ Kinds(last'.replies) = <<"not_authenticated">>
                 /\ last'.ret = RNone
                 /\ UNCHANGED <<user_data, active_users, conv, pending>>]_vars

\* C8 witness: handle_message has answered a caller that is not authenticated.
C8_TextRejected ==
    \E c \in Callers :
        /\ Handled("handle_message", c)
        /\ ~Authenticated(c)
        /\ Kinds(last.replies) = <<"not_authenticated">>

\* C9: after /start, from any prior session state, the path of the caller is
\* empty and the caller is absent from active_users.
C9_StartResets ==
    \A c \in Callers :
        Handled("start", c) => Path(c) = <<>> /\ ~Registered(c)

\* C10: start returns the AUTH conversation state.
C10_StartReturnsAuth ==
    \A c \in Callers : Handled("start", c) => last.ret = AUTH

\* the kinds of reply that carry content of data.json
ContentKinds ==
    {"menu_root", "menu_section", "menu_subsection", "leaf", "controls",
     "search_results"}

\* C11: a caller is authenticated only if the users table has a row of the
\* caller; /start leaves the caller authenticated exactly when the table has
\* the row; and no request for access, employee number, text or search of a
\* caller without a row is answered with a menu, a leaf or search results.
C11_AuthenticatedOnlyIfAuthorized ==
    \A c \in Callers :
        /\ Authenticated(c) => is_user_in_db(c)
        /\ Handled("start", c) => (Authenticated(c) <=> is_user_in_db(c))
        /\ (last.c = c /\ ~is_user_in_db(c))
              => \A i \in 1..Len(last.replies) :
                    last.replies[i].kind \notin ContentKinds

\* C11 witness: a caller without a row has a stored access request and has
\* just been refused by /start.
C11_RequesterRefused ==
    \E c \in Callers :
        /\ ~is_user_in_db(c)
        /\ HasKey(requests, c)
        /\ Handled("start", c)
        /\ ~Authenticated(c)
        /\ Kinds(last.replies) = <<"access_denied">>

\* C12: when the table access_requests has a row of the caller, pressing the
\* request button again or sending an employee number is answered with the
\* already-requested message alone, leaves the table as it is, reports no
\* success and sends no new notice to the owner (a handler that ended in an
\* exception of send_message is left aside).
C12_DuplicateRequestRejected ==
    [][\A c \in Callers :
          (/\ HasKey(requests, c)
           /\ last'.c = c
           /\ last'.ret # RNone
           /\ last'.op \in {"handle_request_access", "handle_employee_number"})
              => /\ requests' = requests
                 /\ Kinds(last'.replies) = <<"already_requested">>]_vars

\* the kind of menu that shows the level of a path of length 0, 1 or 2
LevelKind(path) ==
    IF Len(path) = 0 THEN "menu_root"
    ELSE IF Len(path) = 1 THEN "menu_section" ELSE "menu_subsection"

\* C13: the Back button sent by an authenticated caller at depth d leaves the
\* path of length max(d - 1, 0) that is the previous path without its last
\* label (the empty path stays empty), and the menu of the resulting level is
\* the reply.
C13_BackPopsAndRenders ==
    [][\A c \in Callers :
          (Authenticated(c) /\ handle_message(c, BackText))
              => /\ Path(c)' = IF Path(c) = <<>> THEN <<>>
                               ELSE SubSeq(Path(c), 1, Len(Path(c)) - 1)
                 /\ Kinds(last'.replies) = <<LevelKind(Path(c)')>>]_vars

\* C14: the Main menu button sent by an authenticated caller at any depth
\* empties the path, is answered with the list of the root sections, and
\* returns MAIN_MENU, so the conversation is in the state MAIN_MENU.
C14_MainMenuResets ==
    [][\A c \in Callers :
          (Authenticated(c) /\ handle_message(c, MainMenuText))
              => /\ Path(c)' = <<>>
                 /\ last'.replies = <<Menu("menu_root", KeyRows(sections))>>
                 /\ last'.ret = MAIN_MENU
                 /\ conv'[c] = MAIN_MENU]_vars

\* C14 witness: handle_message has answered the Main menu button: it returned
\* MAIN_MENU with the root list as its one reply.
C14_MainMenuShown ==
    \E c \in Callers :
        /\ Handled("handle_message", c)
        /\ last.ret = MAIN_MENU
        /\ Kinds(last.replies) = <<"menu_root">>
        /\ Path(c) = <<>>
        /\ conv[c] = MAIN_MENU

\* the (section, subsection, item) triples of the tree
BranchKeys(d) ==
    {d.items[i][1] : i \in {j \in 1..Len(d.items) : d.items[j][2].tag = "dict"}}

Triples ==
    UNION { UNION { { <<s, sub, Keys(Get(Get(sections, s), sub))[i]>> :
                        i \in 1..Len(Get(Get(sections, s), sub).items) } :
                    sub \in BranchKeys(Get(sections, s)) } :
            s \in BranchKeys(sections) }

\* what a MarkdownV2 message shows: a backslash makes the next character
\* literal and is not shown itself
RECURSIVE markdown_text(_)
markdown_text(s) ==
    IF s = <<>> THEN <<>>
    ELSE IF Head(s) = "\\" /\ Len(s) >= 2
         THEN <<s[2]>> \o markdown_text(SubSeq(s, 3, Len(s)))
         ELSE <<Head(s)>> \o markdown_text(Tail(s))

\* C15: for every (section, subsection, item) of the tree, an authenticated
\* caller with the empty path who sends the section has the path [section],
\* who then sends the subsection has the path [section, subsection], and who
\* then sends the item is answered with a leaf message whose title is the
\* escaped item label (shown as the label) and whose body is the escaped,
\* formatted description of that item (shown as the description).
C15_TripleShowsLeaf ==
    [][\A c \in Callers, t \in Triples :
          LET description == Get(Get(Get(sections, t[1]), t[2]), t[3]) IN
          /\ (Authenticated(c) /\ Path(c) = <<>> /\ handle_message(c, t[1]))
                => Path(c)' = <<t[1]>>
          /\ (Authenticated(c) /\ Path(c) = <<t[1]>> /\ handle_message(c, t[2]))
                => Path(c)' = <<t[1], t[2]>>
          /\ (/\ Authenticated(c)
              /\ Path(c) = <<t[1], t[2]>>
              /\ handle_message(c, t[3]))
                => /\ Path(c)' = t
                   /\ Kinds(last'.replies) = <<"leaf", "controls">>
                   /\ last'.replies[1].title = escape_markdown(t[3])
                   /\ markdown_text(last'.replies[1].title) = t[3]
                   /\ last'.replies[1].body
                         = escape_markdown(format_description(description))
                   /\ markdown_text(last'.replies[1].body)
                         = format_description(description)]_vars

\* C15 witness: the caller stands on the field-set item of a triple and the
\* leaf message of that item is the reply.
C15_FieldSetLeafShown ==
    \E c \in Callers :
        /\ Handled("handle_message", c)
        /\ Path(c) \in Triples
        /\ Get(Get(Get(sections, Path(c)[1]), Path(c)[2]), Path(c)[3]).tag
              = "dict"
        /\ Kinds(last.replies) = <<"leaf", "controls">>
        /\ last.replies[1].body # <<>>

\* the reserved texts of the navigation
Reserved(text) == text \in {BackText, MainMenuText, StartText}

\* text is a label the caller can select at path: a key of the tree node the
\* path leads to, when that node is a section list, a section or a subsection
KeyAt(path, text) ==
    IF path = <<>> THEN HasKey(sections, text)
    ELSE IF ~ValidPath(path) \/ Len(path) >= 3 THEN FALSE
    ELSE LET node == IF Len(path) = 1 THEN Get(sections, path[1])
                     ELSE Get(Get(sections, path[1]), path[2])
         IN  node.tag = "dict" /\ HasKey(node, text)

\* C16: at every depth, a text of an authenticated caller that is neither a
\* reserved text nor a label selectable at the current path is answered with
\* exactly the unknown-command message.
C16_UnknownTextAnswered ==
    [][\A c \in Callers, text \in Texts :
          (/\ Authenticated(c)
           /\ ~Reserved(text)
           /\ ~KeyAt(Path(c), text)
           /\ handle_message(c, text))
              => Kinds(last'.replies) = <<"unknown_command">>]_vars

\* C17: a text of an authenticated caller that is neither a reserved text nor
\* a key of the tree node at the current path leaves the path and the
\* authentication of the caller unchanged.
C17_UnknownTextKeepsSession ==
    [][\A c \in Callers, text \in Texts :
          (/\ Authenticated(c)
           /\ ~Reserved(text)
           /\ ~KeyAt(Path(c), text)
           /\ handle_message(c, text))
              => /\ Path(c)' = Path(c)
                 /\ Authenticated(c)' = Authenticated(c)]_vars

\* the query of a /search message: the text after the command, stripped
QueryOf(text) ==
    strip(SubSeq(text, Len(SearchCommand) + 1, Len(text)))

\* the result list of a reply of search_command; empty when the reply is not
\* a result list
ResultsOf(replies) ==
    IF Kinds(replies) = <<"search_results">> THEN replies[1].results ELSE <<>>

\* C18: /search of an authenticated caller with nothing or only whitespace
\* after the command is answered with the empty-query message and with no
\* result list.
C18_EmptyQueryRejected ==
    [][\A c \in Callers, text \in SearchQueries :
          (/\ Authenticated(c)
           /\ QueryOf(text) = <<>>
           /\ search_command(c, text))
              => /\ Kinds(last'.replies) = <<"empty_query">>
                 /\ ResultsOf(last'.replies) = <<>>]_vars

\* C18 witness: search_command has answered an authenticated caller with the
\* empty-query message.
C18_EmptyQueryAnswered ==
    \E c \in Callers :
        /\ Handled("search_command", c)
        /\ Authenticated(c)
        /\ Kinds(last.replies) = <<"empty_query">>

\* every node of the tree below the root, with the path of labels to it
RECURSIVE Entries(_, _)
Entries(items, path) ==
    IF items = <<>> THEN {}
    ELSE LET new_path == Append(path, items[1][1]) IN
         {[path |-> new_path, value |-> items[1][2]]}
         \cup (IF items[1][2].tag = "dict"
               THEN Entries(items[1][2].items, new_path) ELSE {})
         \cup Entries(Tail(items), path)

AllNodes == Entries(sections.items, <<>>)

\* the items whose description is a set of fields
FieldSetLeaves == {n \in AllNodes : Len(n.path) = 3 /\ n.value.tag = "dict"}

\* query is a case-insensitive substring of s
Contains(query, s) == IsSubstring(lower(query), lower(s))

\* path begins with prefix
HasPrefix(path, prefix) ==
    Len(path) >= Len(prefix) /\ SubSeq(path, 1, Len(prefix)) = prefix

\* the results at or below the location of a leaf, in the order of the list
ResultsUnder(results, location) ==
    LET under(r) == HasPrefix(r.path, location) IN SelectSeq(results, under)

\* the results the fields of a field set give: for each field, one for the
\* field label and one for the field value, where the query is in them
RECURSIVE FieldResults(_, _, _)
FieldResults(query, fields, location) ==
    IF fields = <<>> THEN <<>>
    ELSE LET r == [path |-> Append(location, fields[1][1]),
                   value |-> fields[1][2]]
         IN  (IF Contains(query, fields[1][1]) THEN <<r>> ELSE <<>>)
             \o (IF Contains(query, fields[1][2].s) THEN <<r>> ELSE <<>>)
             \o FieldResults(query, Tail(fields), location)

\* C19 (as stated): a query that is a substring of a field label or of a
\* field value of a field-set item, but not of the item label, gives no
\* result at or below that item.
C19_FieldsNotScanned ==
    [][\A c \in Callers, text \in SearchQueries, leaf \in FieldSetLeaves :
          (/\ Authenticated(c)
           /\ QueryOf(text) # <<>>
           /\ ~Contains(QueryOf(text), leaf.path[3])
           /\ \E i \in 1..Len(leaf.value.items) :
                 \/ Contains(QueryOf(text), leaf.value.items[i][1])
                 \/ Contains(QueryOf(text), leaf.value.items[i][2].s)
           /\ search_command(c, text))
              => ResultsUnder(ResultsOf(last'.replies), leaf.path) = <<>>]_vars

\* C19 (amended): the results at or below a field-set item are one result
\* with the path of the item when the query is in the item label, followed,
\* for each field in order, by one result with the path of the item extended
\* by the field label when the query is in the field label and one more when
\* the query is in the field value.
C19_FieldsScanned ==
    [][\A c \in Callers, text \in SearchQueries, leaf \in FieldSetLeaves :
          (/\ Authenticated(c)
           /\ QueryOf(text) # <<>>
           /\ search_command(c, text))
              => ResultsUnder(ResultsOf(last'.replies), leaf.path)
                    = (IF Contains(QueryOf(text), leaf.path[3])
                       THEN << [path |-> leaf.path, value |-> leaf.value] >>
                       ELSE <<>>)
                      \o FieldResults(QueryOf(text), leaf.value.items,
                                      leaf.path)]_vars

\* C19 witness: a search has returned a result whose path is a field-set item
\* extended by a field label.
C19_FieldResultReturned ==
    \E c \in Callers, leaf \in FieldSetLeaves :
        /\ Handled("search_command", c)
        /\ Authenticated(c)
        /\ \E i \in 1..Len(ResultsOf(last.replies)) :
              /\ Len(ResultsOf(last.replies)[i].path) = 4
              /\ HasPrefix(ResultsOf(last.replies)[i].path, leaf.path)

\* the leaves with a plain-text description: the strings at the depth of a
\* section, a subsection or an item
PlainLeaves == {n \in AllNodes : Len(n.path) <= 3 /\ n.value.tag = "str"}

\* the values of the fields of the field sets
FieldValues == {n \in AllNodes : Len(n.path) = 4 /\ n.value.tag = "str"}

\* every label of the tree: sections, subsections, items and fields
Labels == {n.path[Len(n.path)] : n \in AllNodes}

\* query is in the description of leaf and of no other plain-text leaf
InOneDescription(query, leaf) ==
    /\ query # <<>>
    /\ Contains(query, leaf.value.s)
    /\ \A other \in PlainLeaves \ {leaf} : ~Contains(query, other.value.s)

\* C20 (as stated): a query that is a case-insensitive substring of the
\* plain-text description of exactly one leaf returns exactly one result,
\* whose path is the location of that leaf.
C20_OneDescriptionOneResult ==
    [][\A c \in Callers, text \in SearchQueries, leaf \in PlainLeaves :
          (/\ Authenticated(c)
           /\ InOneDescription(QueryOf(text), leaf)
           /\ search_command(c, text))
              => /\ Len(ResultsOf(last'.replies)) = 1
                 /\ ResultsOf(last'.replies)[1].path = leaf.path]_vars

\* C20 (amended): a query that is a case-insensitive substring of the
\* plain-text description of exactly one leaf, of no label of the tree and of
\* no field value returns exactly one result: the location of that leaf with
\* its description.
C20_OnlyDescriptionOneResult ==
    [][\A c \in Callers, text \in SearchQueries, leaf \in PlainLeaves :
          (/\ Authenticated(c)
           /\ InOneDescription(QueryOf(text), leaf)
           /\ \A label \in Labels : ~Contains(QueryOf(text), label)
           /\ \A field \in FieldValues :
                 ~Contains(QueryOf(text), field.value.s)
           /\ search_command(c, text))
              => ResultsOf(last'.replies)
                    = << [path |-> leaf.path, value |-> leaf.value] >>]_vars

\* C20 witness: a search has returned one result, the plain-text description
\* of an item with its (section, subsection, item) path.
C20_ItemDescriptionFound ==
    \E c \in Callers :
        /\ Handled("search_command", c)
        /\ Authenticated(c)
        /\ Len(ResultsOf(last.replies)) = 1
        /\ ResultsOf(last.replies)[1].path \in Triples
        /\ ResultsOf(last.replies)[1].value.tag = "str"

\* handle_request_access has just asked caller c for the employee number
Prompted(c) ==
    /\ last.op = "handle_request_access"
    /\ last.c = c
    /\ Kinds(last.replies) = <<"enter_employee_number">>

\* C21: when a caller without a row in users has pressed the request button
\* and has been asked for the employee number, the next text of that caller
\* is taken as the number: a row of the caller is in access_requests, the
\* owner is sent the new-request message, and the caller is not
\* authenticated.
C21_NextTextIsCredential ==
    [][\A c \in Callers, text \in Numbers :
          (/\ ~is_user_in_db(c)
           /\ Prompted(c)
           /\ text_update(c, text, TRUE))
              => /\ HasKey(requests', c)
                 /\ \E i \in 1..Len(last'.replies) :
                       last'.replies[i].kind = "new_request"
                 /\ ~Authenticated(c)']_vars

\* C22: a row leaves access_requests only when the caller of the row has a
\* row in users afterwards; when the INSERT into users fails, the request
\* stays.
C22_RemovedOnlyWhenAuthorized ==
    [][\A x \in Callers :
          (HasKey(requests, x) /\ ~HasKey(requests', x))
              => HasKey(users', x)]_vars

\* C23: at depth 1 a text that is a subsection label of the current section
\* is pushed; when the subsection is a plain string the leaf
\* message with the label and the description is sent and the keyboard that
\* follows has the control row alone; when the subsection is a branch the
\* keyboard has its child labels followed by the control row.
C23_SubsectionLeafOrBranch ==
    [][\A c \in Callers, text \in Texts :
          (/\ Authenticated(c)
           /\ Len(Path(c)) = 1
           /\ KeyAt(Path(c), text)
           /\ handle_message(c, text))
              => LET node == Get(Get(sections, Path(c)[1]), text)
                     replies == last'.replies
                 IN
                 /\ Path(c)' = Append(Path(c), text)
                 /\ replies # <<>>
                 /\ IF node.tag = "str"
                    THEN /\ \E i \in 1..Len(replies) :
                               /\ replies[i].kind = "leaf"
                               /\ replies[i].title = escape_markdown(text)
                               /\ replies[i].body
                                     = escape_markdown(format_description(node))
                         /\ replies[Len(replies)].keyboard = <<ControlRow>>
                    ELSE replies[Len(replies)].keyboard
                            = Append(KeyRows(node), ControlRow)]_vars

\* the entry of caller c in active_users: its time, or nothing
EntryOf(c) == IF Registered(c) THEN <<Get(active_users, c)>> ELSE <<>>

\* C24: every text handled by handle_message for an authenticated caller (a
\* label, a reserved text or a text that is neither) sets the entry of the
\* caller in active_users to the current time; /start, the request button,
\* the employee number and every input answered with the not-authenticated
\* message leave the entry of the caller as it is, present or absent.
C24_ActivityRefresh ==
    [][\A c \in Callers :
          /\ (Authenticated(c)
              /\ \E text \in ActivityTexts : handle_message(c, text))
                => EntryOf(c)' = <<now>>
          /\ (/\ last'.c = c
              /\ last'.op \in {"start", "handle_request_access",
                               "handle_employee_number"})
                => EntryOf(c)' = EntryOf(c)
          /\ (last'.c = c /\ Kinds(last'.replies) = <<"not_authenticated">>)
                => EntryOf(c)' = EntryOf(c)]_vars

\* C24 witness: after time has passed, handle_message has written the current
\* time for an authenticated caller while another caller, who has sent an
\* employee number, has no entry.
C24_RefreshedLater ==
    \E c \in Callers, r \in Callers :
        /\ Handled("handle_message", c)
        /\ Authenticated(c)
        /\ now > 0
        /\ EntryOf(c) = <<now>>
        /\ HasKey(requests, r)
        /\ ~Registered(r)

\* C25: add_user and handle_add_user called by a caller other than the owner
\* write no row to users, delete no row of access_requests, show no list of
\* requests and answer with the no-rights message alone; and every step that
\* changes users or removes a request is handle_add_user of the owner.
C25_OwnerOnlyApproval ==
    [][/\ \A c \in Callers :
             (/\ c # OWNER_ID
              /\ last'.c = c
              /\ last'.op \in {"add_user", "handle_add_user"})
                => /\ users' = users
                   /\ requests' = requests
                   /\ last'.replies = <<Message("no_rights")>>
       /\ (\/ users' # users
           \/ \E x \in Callers : HasKey(requests, x) /\ ~HasKey(requests', x))
             => last'.op = "handle_add_user" /\ last'.c = OWNER_ID]_vars

\* C25 witness: a caller other than the owner has sent an approval line while
\* a request is stored and has been refused.
C25_StrangerRefused ==
    \E c \in Callers :
        /\ c # OWNER_ID
        /\ Handled("handle_add_user", c)
        /\ requests.items # <<>>
        /\ Kinds(last.replies) = <<"no_rights">>

\* C26: a step of start, handle_message, search_command or exit_bot for a
\* caller a leaves, for every other caller b, the user_data of b
\* (authentication and path), the conversation state of b and the entry of b
\* in active_users as they were.
C26_CallersIndependent ==
    [][\A a \in Callers : \A b \in Callers \ {a} :
          (/\ last'.c = a
           /\ last'.op \in {"start", "handle_message", "search_command",
                            "exit_bot"})
              => /\ user_data'[b] = user_data[b]
                 /\ conv'[b] = conv[b]
                 /\ EntryOf(b)' = EntryOf(b)]_vars

\* C26 witness: a caller has just logged out while another caller is
\* authenticated, stands on a path below the root and has an entry in
\* active_users.
C26_OtherSessionKept ==
    \E a \in Callers : \E b \in Callers \ {a} :
        /\ Handled("exit_bot", a)
        /\ ~Authenticated(a)
        /\ Authenticated(b)
        /\ Path(b) # <<>>
        /\ Registered(b)
        /\ conv[b] = MAIN_MENU

====
